---------------------------- MODULE Spec2Model ----------------------------
(***************************************************************************)
(* A model of the vanguard-api browser automation: Order.place_order       *)
(* (src/vanguard/order.py) and VanguardSession.login with its state        *)
(* classifier find_login_state (src/vanguard/session.py).                  *)
(*                                                                         *)
(* The page is the environment.  Every wait of the code (wait_for_selector,*)
(* wait_for, expect(...).to_be_visible, page.click, page.fill) is a        *)
(* nondeterministic choice between the element appearing and the wait      *)
(* timing out; what the code does with either answer is taken from the     *)
(* source, block by block.                                                 *)
(***************************************************************************)
EXTENDS Integers, Sequences, FiniteSets, TLC

VARIABLES
    pc,              \* position in place_order ("idle" before the call)
    req,             \* the arguments of the running place_order call
    order_messages,  \* the local result dictionary of place_order
    quote_price,     \* the local quote_price of place_order
    poll,            \* the loop counter of the quote poll
    ui,              \* what this call has done to the trade ticket page
    ended,           \* how and at which step the place_order call ended
    lpc,             \* position in login / find_login_state
    shown,           \* what the browser page currently shows
    steady,          \* the page has shown the same thing since login navigated
    iter,            \* the loop counter of find_login_state
    mode,            \* the local mode of find_login_state
    login_state,     \* the local login_state of login
    login_ret,       \* the value login returned ("none" while it has not)
    sess,            \* the VanguardSession object's fields and resources
    teardown,        \* the calls close_browser has made, in order
    events,          \* what login has done to the page, in order
    otp,             \* the OTP delivery cards login saw, and the one it clicked
    disk,            \* the profile files: what each path holds
    sessions,        \* how many VanguardSession objects have been built
    last_op,         \* the session method that ran last, and what it did
    closed_with,     \* per path, what close_browser last wrote, if nothing
                     \* has written the path since
    acct,            \* the AllAccount object
    acall,           \* the AllAccount method that ran last, and how it ended
    cell,            \* a table cell under _parse_rows, and what it parsed to
    block,           \* a table body under _parse_rows, and the records built
    reads,           \* what the quote box shows at each poll of a quote
    gq               \* what get_quote and place_order made of the reads

ordervars == <<pc, req, order_messages, quote_price, poll, ui, ended>>
loginvars ==
    <<lpc, shown, steady, iter, mode, login_state, login_ret, sess, teardown, events,
      otp>>
sessionvars == <<disk, sessions, last_op, closed_with>>
loginpos == <<lpc, shown, steady, iter, mode, login_state, login_ret, events, otp>>
accountvars == <<acct, acall>>
cellvars == <<cell, block>>
quotevars == <<reads, gq>>
extravars == <<sessionvars, accountvars, cellvars, quotevars>>
vars == <<ordervars, loginvars, extravars>>

---------------------------------------------------------------------------
(* Bounds of the model *)

\* the longest list of <li> items the validation panel shows
MaxItems == 3

\* how many sessions one behaviour builds, one after the other
MaxSessions == 2

\* the longest text of a table cell, in characters
MaxCellLen == 3

\* how many data rows a table body has at most
MaxRows == 3

\* how many account blocks the holdings page shows at most
MaxBlocks == 2

\* how many AllAccount calls one behaviour makes
MaxCalls == 2

---------------------------------------------------------------------------
(* order.py: the enumerations *)

PriceType == {"LIMIT", "MARKET", "STOP", "STOP_LIMIT"}

Duration == {"DAY", "GOOD_TILL_CANCELLED", "ON_THE_OPEN", "ON_THE_CLOSE",
             "IMMEDIATE_OR_CANCEL"}

OrderSide == {"BUY", "SELL"}

\* the loop bound of the quote poll: for _ in range(12)
QuotePolls == 12

\* the text the quote field shows before a quote has loaded
Placeholder == "$-"

\* a loaded quote (any text other than the placeholder)
LoadedQuote == "$21.50"

---------------------------------------------------------------------------
(* The values an order_messages field holds: a string, or a dictionary.    *)
(* Every value carries the same three fields so that any two compare.      *)

Str(s) == [tag |-> "str", str |-> s, items |-> <<>>]

\* warning_text = {warning_header: [...]}
WarningText(header, items) == [tag |-> "dict", str |-> header, items |-> items]

\* order_confirm = {"Order Number": .., "Date": .., "Time": ..}
OrderConfirm(number, date, time) ==
    [tag |-> "dict", str |-> "order_confirm", items |-> <<number, date, time>>]

Empty == Str("")

InitialMessages ==
    [INVALID |-> Empty, PREVIEW |-> Empty, CONFIRMATION |-> Empty]

\* the header of the validation panel after .replace("error", "").split(":")[0]
WarningHeader == "Before you can proceed"

\* the texts of the <li> items the panel can show
ItemTexts == {"a", "b"}

ItemLists == UNION {[1..n -> ItemTexts] : n \in 0..MaxItems}

---------------------------------------------------------------------------
(* order.py lines 235-239: the loop that collects the panel's list items.  *)
(* acc is warning_text[warning_header]; a Python index past the end of the *)
(* list raises IndexError, and index -1 is the last element.               *)

WarnStep(acc, i, item) ==
    LET acc1 == IF i = 0 THEN Append(acc, item) ELSE acc
        idx  == IF i = 0 THEN Len(acc1) ELSE i
    IN  IF idx > Len(acc1) THEN [ok |-> FALSE, list |-> acc1]
        ELSE IF acc1[idx] # item THEN [ok |-> TRUE, list |-> Append(acc1, item)]
        ELSE [ok |-> TRUE, list |-> acc1]

RECURSIVE WarnLoop(_, _, _)
WarnLoop(items, i, acc) ==
    IF i >= Len(items) THEN [ok |-> TRUE, list |-> acc]
    ELSE LET r == WarnStep(acc, i, items[i + 1])
         IN  IF r.ok THEN WarnLoop(items, i + 1, r.list) ELSE r

CollectWarningItems(items) == WarnLoop(items, 0, <<>>)

---------------------------------------------------------------------------
(* What a place_order call has done to the page so far *)

FreshUi ==
    [account_selected |-> FALSE,
     modal_dismissed |-> FALSE,
     side_clicked |-> "",
     quantity_entered |-> FALSE,
     price_type_clicked |-> "",
     limit_filled |-> FALSE,
     stop_filled |-> FALSE,
     duration_clicked |-> "",
     panel_found |-> FALSE,
     panel_items |-> <<>>,
     preview_clicks |-> 0,
     submit_visible |-> "unknown",
     submit_clicks |-> 0,
     confirm_step |-> FALSE,
     banners |-> "none"]

Requests ==
    [price_type : PriceType, duration : Duration, order_type : OrderSide,
     after_hours : BOOLEAN, dry_run : BOOLEAN]

NoRequest ==
    [price_type |-> "MARKET", duration |-> "DAY", order_type |-> "BUY",
     after_hours |-> FALSE, dry_run |-> TRUE]

NotEnded == [how |-> "running", at |-> "", exc |-> ""]

\* return order_messages, at the step pc
Returns ==
    /\ pc' = "returned"
    /\ ended' = [how |-> "returned", at |-> pc, exc |-> ""]

\* an exception e leaves place_order at the step pc
Raises(e) ==
    /\ pc' = "raised"
    /\ ended' = [how |-> "raised", at |-> pc, exc |-> e]

---------------------------------------------------------------------------
(* Order.place_order, block by block *)

\* lines 61-99: the call and its fresh result dictionary
PlaceOrder ==
    /\ pc = "idle"
    /\ \E r \in Requests : req' = r
    /\ order_messages' = InitialMessages
    /\ quote_price' = ""
    /\ poll' = 0
    /\ ui' = FreshUi
    /\ ended' = NotEnded
    /\ pc' = "go_url"
    /\ UNCHANGED <<loginvars, extravars>>

\* session.py lines 123-129, called at order.py line 100
GoUrlOutcome(outcome) ==
    IF outcome = "other_error" THEN Raises("goto error") ELSE pc' = "account" /\ UNCHANGED ended

GoUrl ==
    /\ pc = "go_url"
    /\ \E outcome \in {"ok", "NS_BINDING_ABORTED", "other_error"} :
          GoUrlOutcome(outcome)
    /\ UNCHANGED <<req, order_messages, quote_price, poll, ui, loginvars, extravars>>

\* lines 101-112: the account picker
SelectAccount ==
    /\ pc = "account"
    /\ \E outcome \in {"timeout", "no_match", "selected"} :
          ui' = [ui EXCEPT !.account_selected = (outcome = "selected")]
    /\ pc' = "quote_box"
    /\ UNCHANGED <<req, order_messages, quote_price, poll, ended, loginvars, extravars>>

\* lines 113-119: the quote field; the wait is not wrapped
QuoteBox ==
    /\ pc = "quote_box"
    /\ \E appears \in BOOLEAN :
          IF appears THEN pc' = "quote_poll" /\ UNCHANGED ended
          ELSE Raises("PlaywrightTimeoutError")
    /\ poll' = 0
    /\ UNCHANGED <<req, order_messages, quote_price, ui, loginvars, extravars>>

\* lines 125-126: if quote_price != placeholder: break
BreaksPoll(q) == q # Placeholder

\* lines 120-126: one iteration of the quote poll; the wait is not wrapped
QuotePoll ==
    /\ pc = "quote_poll"
    /\ poll < QuotePolls
    /\ \/ /\ Raises("PlaywrightTimeoutError")
          /\ UNCHANGED <<quote_price, poll>>
       \/ \E text \in {Placeholder, LoadedQuote} :
             /\ quote_price' = text
             /\ poll' = poll + 1
             /\ UNCHANGED ended
             /\ pc' = IF BreaksPoll(text) \/ poll + 1 = QuotePolls
                      THEN "quote_check" ELSE "quote_poll"
    /\ UNCHANGED <<req, order_messages, ui, loginvars, extravars>>

\* line 127 with its test always true: the placeholder counts as a quote
QuoteLoadedAlways(q) == TRUE

\* line 127: if quote_price != placeholder
QuoteLoaded(q) == q # Placeholder

\* lines 127-133
QuoteCheck ==
    /\ pc = "quote_check"
    /\ IF QuoteLoaded(quote_price)
       THEN /\ order_messages' =
                 [order_messages EXCEPT !.INVALID = Str("Order page loaded correctly.")]
            /\ pc' = "modal"
            /\ UNCHANGED ended
       ELSE /\ order_messages' =
                 [order_messages EXCEPT !.INVALID = Str("Quote did not load correctly.")]
            /\ Returns
    /\ UNCHANGED <<req, quote_price, poll, ui, loginvars, extravars>>

\* lines 134-141: the "trade cannot be completed" modal
DismissModal ==
    /\ pc = "modal"
    /\ \E appears \in BOOLEAN :
          ui' = [ui EXCEPT !.modal_dismissed = appears]
    /\ pc' = "side"
    /\ UNCHANGED <<req, order_messages, quote_price, poll, ended, loginvars, extravars>>

\* lines 142-151: Buy or Sell; the wait is not wrapped
SelectSide ==
    /\ pc = "side"
    /\ \E appears \in BOOLEAN :
          IF appears
          THEN /\ ui' = [ui EXCEPT !.side_clicked =
                            IF req.order_type = "BUY" THEN "Buy" ELSE "Sell"]
               /\ pc' = "quantity"
               /\ UNCHANGED ended
          ELSE /\ Raises("PlaywrightTimeoutError")
               /\ UNCHANGED ui
    /\ UNCHANGED <<req, order_messages, quote_price, poll, loginvars, extravars>>

\* lines 152-156: the quantity box; the wait is not wrapped
EnterQuantity ==
    /\ pc = "quantity"
    /\ \E appears \in BOOLEAN :
          IF appears
          THEN /\ ui' = [ui EXCEPT !.quantity_entered = TRUE]
               /\ pc' = "price_type"
               /\ UNCHANGED ended
          ELSE /\ Raises("PlaywrightTimeoutError")
               /\ UNCHANGED ui
    /\ UNCHANGED <<req, order_messages, quote_price, poll, loginvars, extravars>>


\* lines 164, 173, 182: duration not in ["DAY", "GOOD_TILL_CANCELLED"]
DurationAllowed(d) == d \in {"DAY", "GOOD_TILL_CANCELLED"}

\* lines 166, 175, 184: the message of the violated duration constraint
DurationMessage(pt) ==
    IF pt = "LIMIT" THEN "Limit orders must be DAY or GOOD TILL CANCELLED."
    ELSE "Stop orders must be DAY or GOOD TILL CANCELLED."

\* lines 160, 170, 179, 188: the label of the price-type control
PriceTypeLabel(pt) ==
    CASE pt = "MARKET" -> "Market"
      [] pt = "LIMIT" -> "Limit"
      [] pt = "STOP" -> "Stop"
      [] pt = "STOP_LIMIT" -> "Stop Limit"

NeedsLimitPriceAlways(pt) == TRUE

\* line 190: if price_type in ["LIMIT", "STOP_LIMIT"]
NeedsLimitPrice(pt) == pt \in {"LIMIT", "STOP_LIMIT"}

\* line 192: if price_type in ["STOP", "STOP_LIMIT"]
NeedsStopPrice(pt) == pt \in {"STOP", "STOP_LIMIT"}

\* lines 157-195: price type and prices.  control, limit and stop say whether
\* the control, #limitPrice and #stopPrice appear; the first timeout leaves
\* the try block.
SelectPriceType ==
    /\ pc = "price_type"
    /\ IF req.price_type # "MARKET" /\ ~DurationAllowed(req.duration)
       THEN /\ order_messages' =
                 [order_messages EXCEPT !.INVALID = Str(DurationMessage(req.price_type))]
            /\ Returns
            /\ UNCHANGED ui
       ELSE /\ \E control, limit, stop \in BOOLEAN :
                 LET limit_done == control /\ NeedsLimitPrice(req.price_type) /\ limit
                     limit_ok   == control /\ (NeedsLimitPrice(req.price_type) => limit)
                     stop_done  == limit_ok /\ NeedsStopPrice(req.price_type) /\ stop
                 IN  ui' = [ui EXCEPT
                               !.price_type_clicked =
                                   IF control THEN PriceTypeLabel(req.price_type) ELSE "",
                               !.limit_filled = limit_done,
                               !.stop_filled = stop_done]
            /\ pc' = "duration"
            /\ UNCHANGED ended
            /\ UNCHANGED order_messages
    /\ UNCHANGED <<req, quote_price, poll, loginvars, extravars>>

\* lines 197-200: the duration control the code clicks ("" for none)
DurationLabel(d, pt) ==
    IF d = "DAY" /\ pt # "MARKET" THEN "Day"
    ELSE IF d = "GOOD_TILL_CANCELLED" THEN "60-day (GTC)"
    ELSE ""

\* lines 196-217: duration, and for a sale the cost basis dialog; every
\* timeout is swallowed
SelectDuration ==
    /\ pc = "duration"
    /\ \E appears \in BOOLEAN :
          ui' = [ui EXCEPT !.duration_clicked =
                    IF appears THEN DurationLabel(req.duration, req.price_type) ELSE ""]
    /\ pc' = "continue"
    /\ UNCHANGED <<req, order_messages, quote_price, poll, ended, loginvars, extravars>>

\* lines 218-223: the Continue button of the trade detail panel; a timeout
\* is swallowed
ContinueTradeDetail ==
    /\ pc = "continue"
    /\ pc' = "banner"
    /\ UNCHANGED <<req, order_messages, quote_price, poll, ui, ended, loginvars, extravars>>

\* lines 224-243: the validation banner.  "timeout": the panel selector
\* never appears; "no_banner": the panel appears without the "Before you
\* can proceed" text, whose read then times out; "found": the panel with
\* its list items.
BannerFoundGoesOn(items) ==
    /\ ui' = [ui EXCEPT !.panel_found = TRUE, !.panel_items = items]
    /\ order_messages' =
          [order_messages EXCEPT
              !.INVALID = WarningText(WarningHeader, CollectWarningItems(items).list)]
    /\ pc' = "preview"
    /\ UNCHANGED ended

BannerFound(items) ==
    LET r == CollectWarningItems(items)
    IN  /\ ui' = [ui EXCEPT !.panel_found = TRUE, !.panel_items = items]
        /\ IF r.ok
           THEN /\ order_messages' =
                     [order_messages EXCEPT
                         !.INVALID = WarningText(WarningHeader, r.list)]
                /\ Returns
           ELSE /\ Raises("IndexError")
                /\ UNCHANGED order_messages

BannerAbsent ==
    /\ order_messages' =
          [order_messages EXCEPT !.INVALID = Str("No invalid order message found.")]
    /\ pc' = "preview"
    /\ UNCHANGED ended
    /\ UNCHANGED ui

ValidationBanner ==
    /\ pc = "banner"
    /\ \/ \E outcome \in {"timeout", "no_banner"} : BannerAbsent
       \/ \E items \in ItemLists : BannerFound(items)
    /\ UNCHANGED <<req, quote_price, poll, loginvars, extravars>>

\* lines 244-249: Preview Order; a timeout is swallowed
PreviewOrder ==
    /\ pc = "preview"
    /\ \E visible \in BOOLEAN :
          ui' = [ui EXCEPT !.preview_clicks =
                    IF visible THEN ui.preview_clicks + 1 ELSE ui.preview_clicks]
    /\ pc' = "after_hours"
    /\ UNCHANGED <<req, order_messages, quote_price, poll, ended, loginvars, extravars>>

\* lines 250-256: the after-hours Continue button; a timeout is swallowed
AfterHours ==
    /\ pc = "after_hours"
    /\ pc' = "submit"
    /\ UNCHANGED <<req, order_messages, quote_price, poll, ui, ended, loginvars, extravars>>

\* line 261 with the dry_run test lost: the call goes on to the click
StopsBeforeSubmitNever(dry_run) == FALSE

\* line 261: if dry_run: return
StopsBeforeSubmit(dry_run) == dry_run

\* line 260 with the assignment lost: nothing is recorded
PreviewMessageLost == ""

\* line 260: the message recorded once the Submit order control shows
PreviewMessage == "Order preview loaded correctly."

\* lines 264-265 with pass in place of raise, as in every other block
SubmitNotVisibleSwallowed ==
    /\ ui' = [ui EXCEPT !.submit_visible = "no"]
    /\ pc' = "survey"
    /\ UNCHANGED <<ended, order_messages>>

\* lines 264-265: the control does not show: raise
SubmitNotVisible ==
    /\ ui' = [ui EXCEPT !.submit_visible = "no"]
    /\ Raises("No place order button found cannot continue.")
    /\ UNCHANGED order_messages

\* lines 257-265: the Submit order control.  "not_visible": expect fails;
\* "visible": the control shows and a click on it lands; "click_timeout":
\* the control shows and the click on it times out.
SubmitOrder ==
    /\ pc = "submit"
    /\ \E outcome \in {"not_visible", "visible", "click_timeout"} :
          IF outcome = "not_visible"
          THEN SubmitNotVisible
          ELSE /\ order_messages' =
                    [order_messages EXCEPT !.PREVIEW = Str(PreviewMessage)]
               /\ IF StopsBeforeSubmit(req.dry_run)
                  THEN /\ ui' = [ui EXCEPT !.submit_visible = "yes"]
                       /\ Returns
                  ELSE IF outcome = "visible"
                  THEN /\ ui' = [ui EXCEPT !.submit_visible = "yes",
                                          !.submit_clicks = ui.submit_clicks + 1]
                       /\ pc' = "survey"
                       /\ UNCHANGED ended
                  ELSE /\ ui' = [ui EXCEPT !.submit_visible = "yes"]
                       /\ Raises("No place order button found cannot continue.")
    /\ UNCHANGED <<req, quote_price, poll, loginvars, extravars>>

\* lines 266-272: the survey overlay; a timeout is swallowed
DismissSurvey ==
    /\ pc = "survey"
    /\ pc' = "confirmation"
    /\ UNCHANGED <<req, order_messages, quote_price, poll, ui, ended, loginvars, extravars>>

\* lines 283-287: the order number read from the "Order #" banner
OrderNumber(matches) == IF matches THEN "12345" ELSE "No order number found."

\* lines 290-309: date and time read from the "Submitted at/on" banner
OrderDate(matches) == IF matches THEN "June 3, 2024" ELSE "No order date found."

OrderTime(matches) == IF matches THEN "10:15 am" ELSE "No order time found."

\* lines 273-281: which banners appear.  The timestamp banner is looked for
\* only once the order-number banner has appeared, "Submitted on" only once
\* "Submitted at" has timed out.
BannerOutcomes ==
    {"no_order_number", "no_timestamp", "submitted_at", "submitted_on"}

\* lines 276-281 with the timestamp banner optional
ConfirmationFoundWithoutTimestamp(b) == b # "no_order_number"

\* lines 274-281: the order-number banner and one timestamp banner appeared
ConfirmationFound(b) == b \in {"submitted_at", "submitted_on"}

\* lines 273-321: confirmation parsing; every timeout ends in the except
\* clause of line 317
ParseConfirmation ==
    /\ pc = "confirmation"
    /\ \E b \in BannerOutcomes, number_matches, date_matches \in BOOLEAN :
          /\ ui' = [ui EXCEPT !.confirm_step = TRUE, !.banners = b]
          /\ order_messages' =
                [order_messages EXCEPT !.CONFIRMATION =
                    IF ConfirmationFound(b)
                    THEN OrderConfirm(OrderNumber(number_matches),
                                      OrderDate(date_matches), OrderTime(date_matches))
                    ELSE Str("No order confirmation page found. Order Failed.")]
    /\ Returns
    /\ UNCHANGED <<req, quote_price, poll, loginvars, extravars>>

---------------------------------------------------------------------------
(* test.py lines 53-56: how the test script reads a result *)

\* the else branch of line 53: the script prints "Order Invalid"
ScriptReportsInvalid(m) == ~(m.INVALID = Empty \/ m.CONFIRMATION # Empty)

---------------------------------------------------------------------------

---------------------------------------------------------------------------
(* session.py: the session object *)

\* __init__ lines 48-56 and get_browser lines 73-98: a session just built.
\* title "None" is Python's None; the profile file holds "{}" when
\* get_browser has just created it.
NewSession(title, debug) ==
    [title |-> title, debug |-> debug, password |-> "",
     browser |-> "open", playwright |-> "running",
     tracing |-> IF debug THEN "started" ELSE "off",
     profile_file |-> "{}", storage |-> "fresh"]

Titles == {"None", "profile"}

\* save_storage_state, lines 109-111
SaveStorageState(s) == [s EXCEPT !.profile_file = s.storage]

\* close_browser, lines 115-121: the session after the call
CloseBrowser(s) ==
    [SaveStorageState(s) EXCEPT
        !.tracing = IF s.debug THEN "stopped" ELSE s.tracing,
        !.browser = "closed",
        !.playwright = "stopped"]

CloseBrowserCallsCloseFirst(s) ==
    (IF s.debug THEN <<"tracing.stop">> ELSE <<>>)
        \o <<"browser.close", "save_storage_state", "playwright.stop">>

\* close_browser, lines 115-121: the calls it makes, in order
CloseBrowserCalls(s) ==
    (IF s.debug THEN <<"tracing.stop">> ELSE <<>>)
        \o <<"save_storage_state", "browser.close", "playwright.stop">>

\* get_browser lines 73-79: the profile file of a session
ProfilePath(title) ==
    CASE title = "None" -> "Vanguard.json"
      [] title = "profile" -> "Vanguard_profile.json"
      [] title = "other" -> "Vanguard_other.json"

Paths == {"Vanguard.json", "Vanguard_profile.json", "Vanguard_other.json"}

\* no profile file exists yet
EmptyDisk == [p \in Paths |-> "absent"]

NothingClosed == [p \in Paths |-> "none"]

\* the values a field of a holding record holds
NoneValue == [tag |-> "None", num |-> 0, col |-> "", row |-> 0]

\* AllAccount.__init__ lines 37-42
NewAccount ==
    [account_totals |-> <<>>, total_value |-> NoneValue,
     account_numbers |-> <<>>, accounts_positions |-> <<>>,
     as_of_time |-> "None"]

NoCall ==
    [op |-> "none", ret |-> "none", raised |-> "", loaded |-> FALSE,
     loads |-> 0, calls |-> 0, page |-> <<>>, totals_before |-> <<>>]

NoCell == [kind |-> "none", text |-> <<>>, parsed |-> FALSE, value |-> 0]

NoBlock == [rows |-> <<>>, before |-> <<>>, after |-> <<>>,
            done |-> FALSE, raised |-> ""]

NoQuote == [get_quote |-> "none", place_order |-> "none"]

\* login has seen no OTP card
NoOtp ==
    [last_four |-> [type |-> "none", text |-> "", number |-> 0],
     cards |-> <<>>, presented |-> FALSE, clicked |-> 0]

NoOp == [op |-> "none", outcome |-> "", ret |-> "none", wrote |-> FALSE,
         context_from |-> "None"]

\* an Order on a session just built, before place_order is called
OrderInit ==
    /\ pc = "idle"
    /\ req = NoRequest
    /\ order_messages = InitialMessages
    /\ quote_price = ""
    /\ poll = 0
    /\ ui = FreshUi
    /\ ended = NotEnded
    /\ lpc = "idle"
    /\ shown = "blank"
    /\ steady = TRUE
    /\ iter = 0
    /\ mode = 0
    /\ login_state = 0
    /\ login_ret = "none"
    /\ sess = NewSession("None", FALSE)
    /\ teardown = <<>>
    /\ events = <<>>
    /\ otp = NoOtp
    /\ disk = [EmptyDisk EXCEPT ![ProfilePath(sess.title)] = "{}"]
    /\ sessions = 1
    /\ last_op = NoOp
    /\ closed_with = NothingClosed
    /\ acct = NewAccount
    /\ acall = NoCall
    /\ cell = NoCell
    /\ block = NoBlock
    /\ reads = <<>>
    /\ gq = NoQuote

OrderNext ==
    \/ PlaceOrder
    \/ GoUrl
    \/ SelectAccount
    \/ QuoteBox
    \/ QuotePoll
    \/ QuoteCheck
    \/ DismissModal
    \/ SelectSide
    \/ EnterQuantity
    \/ SelectPriceType
    \/ SelectDuration
    \/ ContinueTradeDetail
    \/ ValidationBanner
    \/ PreviewOrder
    \/ AfterHours
    \/ SubmitOrder
    \/ DismissSurvey
    \/ ParseConfirmation

SpecOrder == OrderInit /\ [][OrderNext]_vars

---------------------------------------------------------------------------
(* session.py: find_login_state *)

\* what the page can show while login runs.  "dashboard" and
\* "landing_loading" are at the landing URL, with and without the Accounts
\* heading; "challenge" is a page of challenges.web.vanguard.com with none
\* of the markers; "other" is anything else.
Pages ==
    {"dashboard", "landing_loading", "password_form", "choose_method",
     "app_confirm", "code_form", "challenge", "other"}

\* line 132: for _ in range(120)
LoginStateTries == 120

\* line 134: self.page.url == landing_page()
AtLanding(p) == p \in {"dashboard", "landing_loading"}

\* line 173: "challenges.web.vanguard.com" in self.page.url
AtChallenge(p) == p = "challenge"

\* return mode; login line 197 stores it in login_state
FindReturns(m) ==
    /\ mode' = m
    /\ login_state' = m
    /\ lpc' = "dispatch"
    /\ UNCHANGED iter

\* the check did not return: on to the next one
FindGoesOn(next) ==
    /\ lpc' = next
    /\ UNCHANGED <<mode, login_state, iter>>

\* the site moves the page on while login is classifying it
PageChanges ==
    /\ lpc \in {"c_landing", "c_password", "c_choose", "c_app", "c_code",
                "c_challenge"}
    /\ \E p \in Pages \ {shown} : shown' = p
    /\ steady' = FALSE
    /\ UNCHANGED <<lpc, iter, mode, login_state, login_ret, sess, teardown, events,
                   otp, ordervars, extravars>>

\* lines 133-142
CheckLanding ==
    /\ lpc = "c_landing"
    /\ IF AtLanding(shown) /\ shown = "dashboard"
       THEN FindReturns(1) ELSE FindGoesOn("c_password")
    /\ UNCHANGED <<shown, steady, login_ret, sess, teardown, events, otp, ordervars, extravars>>

\* lines 143-150
CheckPassword ==
    /\ lpc = "c_password"
    /\ IF shown = "password_form" THEN FindReturns(2) ELSE FindGoesOn("c_choose")
    /\ UNCHANGED <<shown, steady, login_ret, sess, teardown, events, otp, ordervars, extravars>>

\* lines 151-158
CheckChoose ==
    /\ lpc = "c_choose"
    /\ IF shown = "choose_method" THEN FindReturns(3) ELSE FindGoesOn("c_app")
    /\ UNCHANGED <<shown, steady, login_ret, sess, teardown, events, otp, ordervars, extravars>>

\* lines 159-166: mode = 4 is assigned and the function does not return
CheckApp ==
    /\ lpc = "c_app"
    /\ mode' = IF shown = "app_confirm" THEN 4 ELSE mode
    /\ lpc' = "c_code"
    /\ UNCHANGED <<iter, login_state, shown, steady, login_ret, sess, teardown, events,
                   otp, ordervars, extravars>>

\* lines 167-172
CheckCode ==
    /\ lpc = "c_code"
    /\ IF shown = "code_form" THEN FindReturns(5) ELSE FindGoesOn("c_challenge")
    /\ UNCHANGED <<shown, steady, login_ret, sess, teardown, events, otp, ordervars, extravars>>

MoreTriesAlways(i) == TRUE

\* line 132: range(120) has another iteration after iteration i (from 0)
MoreTries(i) == i + 1 < LoginStateTries

\* lines 173-177: the challenge URL, then the next iteration; after the
\* last one mode = 0 is returned
CheckChallenge ==
    /\ lpc = "c_challenge"
    /\ IF AtChallenge(shown) THEN FindReturns(1)
       ELSE IF MoreTries(iter)
       THEN /\ iter' = iter + 1
            /\ lpc' = "c_landing"
            /\ UNCHANGED <<mode, login_state>>
       ELSE /\ iter' = iter + 1
            /\ mode' = 0
            /\ login_state' = 0
            /\ lpc' = "dispatch"
    /\ UNCHANGED <<shown, steady, login_ret, sess, teardown, events, otp, ordervars, extravars>>

---------------------------------------------------------------------------
(* session.py: login *)

\* lines 179-195: the call
Login ==
    /\ lpc = "idle"
    /\ sess' = [sess EXCEPT !.password = "password"]
    /\ lpc' = "go_url"
    /\ UNCHANGED <<shown, steady, iter, mode, login_state, login_ret, teardown, events,
                   otp, ordervars, extravars>>

\* line 196, go_url lines 123-129: the page the navigation ends on, or an
\* error other than NS_BINDING_ABORTED, which the except clause of login gets
LoginGoUrl ==
    /\ lpc = "go_url"
    /\ \/ \E p \in Pages :
             /\ shown' = p
             /\ lpc' = "c_landing"
       \/ /\ lpc' = "except"
          /\ UNCHANGED shown
    /\ steady' = TRUE
    /\ iter' = 0
    /\ UNCHANGED <<mode, login_state, login_ret, sess, teardown, events, otp, ordervars, extravars>>

\* lines 198-199 with return False in place of the raise
AfterStateNoRaise(state) ==
    CASE state \in {0, 1} -> "return_false"
      [] state = 2 -> "credentials"
      [] state \in {3, 4} -> "app_confirm"
      [] state = 5 -> "return_true"

\* lines 198-202, 213, 253-254: where login goes with the classifier's code
AfterState(state) ==
    CASE state = 0 -> "except"
      [] state = 1 -> "return_false"
      [] state = 2 -> "credentials"
      [] state \in {3, 4} -> "app_confirm"
      [] state = 5 -> "return_true"

LoginReturns(v) ==
    /\ login_ret' = v
    /\ lpc' = "done"

Dispatch ==
    /\ lpc = "dispatch"
    /\ LET to == AfterState(login_state)
       IN  IF to = "return_false" THEN LoginReturns("False")
           ELSE IF to = "return_true" THEN LoginReturns("True")
           ELSE lpc' = to /\ UNCHANGED login_ret
    /\ UNCHANGED <<shown, steady, iter, mode, login_state, sess, teardown, events,
                   otp, ordervars, extravars>>

\* lines 203-212: user name and password.  "timeout": #USER never appears
\* (swallowed); "no_password_box": query_selector finds no #PASSWORD-blocked
\* and returns None, whose .type raises AttributeError.
Credentials ==
    /\ lpc = "credentials"
    /\ \E outcome \in {"typed", "timeout", "no_password_box"} :
          /\ events' = IF outcome = "typed" THEN Append(events, "credentials")
                       ELSE events
          /\ lpc' = IF outcome = "no_password_box" THEN "except" ELSE "app_confirm"
    /\ UNCHANGED <<shown, steady, iter, mode, login_state, login_ret, sess, teardown,
                   otp, ordervars, extravars>>

\* lines 214-224: decline the in-app confirmation; a timeout is swallowed
DeclineAppConfirm ==
    /\ lpc = "app_confirm"
    /\ \E appears \in BOOLEAN :
          events' = IF appears THEN Append(events, "app_declined") ELSE events
    /\ lpc' = "choose"
    /\ UNCHANGED <<shown, steady, iter, mode, login_state, login_ret, sess, teardown,
                   otp, ordervars, extravars>>

\* lines 225-230: choose the verification method; a timeout is swallowed
ChooseMethod ==
    /\ lpc = "choose"
    /\ \E appears \in BOOLEAN :
          events' = IF appears THEN Append(events, "method_chosen") ELSE events
    /\ lpc' = "otp_cards"
    /\ UNCHANGED <<shown, steady, iter, mode, login_state, login_ret, sess, teardown,
                   otp, ordervars, extravars>>

\* the last_four argument as a caller passes it: a string of digits, or
\* an int (the docstring's type), which cannot keep a leading zero
LastFours ==
    {[type |-> "str", text |-> "1234", number |-> 0],
     [type |-> "str", text |-> "0123", number |-> 0],
     [type |-> "int", text |-> "", number |-> 1234],
     [type |-> "int", text |-> "", number |-> 123]}

\* str() of the argument inside the f-string of line 239
FormatLastFour(v) ==
    IF v.type = "str" THEN v.text
    ELSE IF v.number = 1234 THEN "1234" ELSE "123"

\* what follows ***-***- on the cards the page may show
CardTails == {"1234", "0123"}

MaxCards == 2

CardLists == UNION {[1..n -> CardTails] : n \in 1..MaxCards}

CardMatchesNever(tail, last_four) == FALSE

\* line 239: otp_card.inner_text() == f"***-***-{last_four}"
CardMatches(tail, last_four) == tail = FormatLastFour(last_four)

\* lines 238-241: the first card that matches (0 when none does)
FirstMatch(cards, last_four) ==
    IF \E k \in 1..Len(cards) : CardMatches(cards[k], last_four)
    THEN CHOOSE k \in 1..Len(cards) :
             /\ CardMatches(cards[k], last_four)
             /\ \A j \in 1..(k - 1) : ~CardMatches(cards[j], last_four)
    ELSE 0

\* lines 231-243: the OTP delivery cards.  The wait for a card times out
\* (swallowed), or the cards are listed and the first one whose text is
\* ***-***-<last_four> is clicked.  last_four is an argument of login; it
\* is read nowhere before this step, where the model draws it.
OtpCards ==
    /\ lpc = "otp_cards"
    /\ \/ /\ otp' = NoOtp
          /\ UNCHANGED events
       \/ \E cards \in CardLists, last_four \in LastFours :
             LET k == FirstMatch(cards, last_four)
             IN  /\ otp' = [last_four |-> last_four, cards |-> cards,
                            presented |-> TRUE, clicked |-> k]
                 /\ events' = IF k > 0 THEN Append(events, "card_clicked")
                              ELSE events
    /\ lpc' = "text"
    /\ UNCHANGED <<shown, steady, iter, mode, login_state, login_ret, sess, teardown,
                   ordervars, extravars>>

\* lines 244-252: request the text code
RequestText ==
    /\ lpc = "text"
    /\ \E appears \in BOOLEAN :
          IF appears
          THEN /\ events' = Append(events, "text_requested")
               /\ LoginReturns("True")
               /\ UNCHANGED sess
          ELSE /\ IF sess.title # "None"
                  THEN /\ sess' = SaveStorageState(sess)
                       /\ events' = Append(events, "save_storage_state")
                  ELSE UNCHANGED <<sess, events>>
               /\ LoginReturns("False")
    /\ UNCHANGED <<shown, steady, iter, mode, login_state, teardown, otp, ordervars, extravars>>

\* lines 255-258: except Exception: close_browser(), then raise
LoginExcept ==
    /\ lpc = "except"
    /\ sess' = CloseBrowser(sess)
    /\ teardown' = teardown \o CloseBrowserCalls(sess)
    /\ LoginReturns("raised")
    /\ UNCHANGED <<shown, steady, iter, mode, login_state, events, otp, ordervars, extravars>>

\* a session just built, with any title and debug flag, before login
LoginInit ==
    /\ pc = "idle"
    /\ req = NoRequest
    /\ order_messages = InitialMessages
    /\ quote_price = ""
    /\ poll = 0
    /\ ui = FreshUi
    /\ ended = NotEnded
    /\ lpc = "idle"
    /\ shown = "blank"
    /\ steady = TRUE
    /\ iter = 0
    /\ mode = 0
    /\ login_state = 0
    /\ login_ret = "none"
    /\ \E t \in Titles, d \in BOOLEAN : sess = NewSession(t, d)
    /\ teardown = <<>>
    /\ events = <<>>
    /\ otp = NoOtp
    /\ disk = [EmptyDisk EXCEPT ![ProfilePath(sess.title)] = "{}"]
    /\ sessions = 1
    /\ last_op = NoOp
    /\ closed_with = NothingClosed
    /\ acct = NewAccount
    /\ acall = NoCall
    /\ cell = NoCell
    /\ block = NoBlock
    /\ reads = <<>>
    /\ gq = NoQuote

LoginNext ==
    \/ Login
    \/ LoginGoUrl
    \/ PageChanges
    \/ CheckLanding
    \/ CheckPassword
    \/ CheckChoose
    \/ CheckApp
    \/ CheckCode
    \/ CheckChallenge
    \/ Dispatch
    \/ Credentials
    \/ DeclineAppConfirm
    \/ ChooseMethod
    \/ OtpCards
    \/ RequestText
    \/ LoginExcept

SpecLogin == LoginInit /\ [][LoginNext]_vars

(***************************************************************************)
(* session.py: the life of a session and of its profile file.  One session *)
(* is alive at a time; login is taken by its outcomes (its steps are the   *)
(* actions of SpecLogin above).                                            *)
(***************************************************************************)

\* profile names a caller passes as title
SessionTitles == Titles \cup {"other"}

\* what the browser context holds: cookies and local storage of the site
StorageStates == {"fresh", "visited", "authenticated"}

\* a context created from a storage file holds what the file holds; the
\* file get_browser creates (lines 82-83) holds the empty object
LoadStorage(content) == IF content = "{}" THEN "fresh" ELSE content

ContextStorageNever(title) == "None"

\* get_browser line 90: the storage_state argument of new_context
ContextStorage(title) ==
    IF title # "None" THEN ProfilePath(title) ELSE "None"

SavesProfileAlways(title) == TRUE

\* login line 250, login_two line 287: if self.title is not None
SavesProfile(title) == title # "None"

\* before any session is built
NoSession ==
    [NewSession("None", FALSE) EXCEPT !.browser = "none",
                                      !.playwright = "none",
                                      !.profile_file = "absent"]

\* VanguardSession(title, debug): __init__ and get_browser
Construct ==
    /\ sessions < MaxSessions
    /\ sess.browser # "open"
    /\ \E title \in SessionTitles, debug \in BOOLEAN :
         LET path == ProfilePath(title)
             created == disk[path] = "absent"
             file == IF created THEN "{}" ELSE disk[path]
             from == ContextStorage(title)
         IN  /\ disk' = [disk EXCEPT ![path] = file]
             /\ sess' = [NewSession(title, debug) EXCEPT
                            !.profile_file = file,
                            !.storage = IF from = "None" THEN "fresh"
                                        ELSE LoadStorage(disk'[from])]
             /\ last_op' = [op |-> "construct", outcome |-> "", ret |-> "none",
                            wrote |-> created, context_from |-> from]
    /\ sessions' = sessions + 1
    /\ teardown' = <<>>
    /\ UNCHANGED <<closed_with, ordervars, loginpos,
                   accountvars, cellvars, quotevars>>

\* go_url: the site may set or renew cookies; nothing is written
SessionGoUrl ==
    /\ sess.browser = "open"
    /\ \E st \in StorageStates : sess' = [sess EXCEPT !.storage = st]
    /\ last_op' = [op |-> "go_url", outcome |-> "", ret |-> "none",
                   wrote |-> FALSE, context_from |-> "None"]
    /\ UNCHANGED <<disk, sessions, closed_with, teardown, ordervars, loginpos,
                   accountvars, cellvars, quotevars>>

\* the ways a login call ends (lines 205-206, 248, 249-252, 253-254, 255-258)
LoginOutcomes ==
    {"logged_in", "text_requested", "text_timeout", "code_form", "raised"}

LoginReturn(outcome) ==
    CASE outcome \in {"text_requested", "code_form"} -> "True"
      [] outcome \in {"logged_in", "text_timeout"} -> "False"
      [] outcome = "raised" -> "raised"

\* login(username, password, last_four), by outcome
SessionLogin ==
    /\ sess.browser = "open"
    /\ \E outcome \in LoginOutcomes, st \in StorageStates :
         LET s1 == [sess EXCEPT !.password = "password", !.storage = st]
             path == ProfilePath(sess.title)
             saves == outcome = "text_timeout" /\ SavesProfile(sess.title)
             closes == outcome = "raised"
         IN  /\ sess' = IF closes THEN CloseBrowser(s1)
                        ELSE IF saves THEN SaveStorageState(s1) ELSE s1
             /\ disk' = IF closes \/ saves
                        THEN [disk EXCEPT ![path] = st] ELSE disk
             /\ closed_with' =
                    IF closes THEN [closed_with EXCEPT ![path] = st]
                    ELSE IF saves THEN [closed_with EXCEPT ![path] = "none"]
                    ELSE closed_with
             /\ teardown' = IF closes THEN teardown \o CloseBrowserCalls(s1)
                            ELSE teardown
             /\ last_op' = [op |-> "login", outcome |-> outcome,
                            ret |-> LoginReturn(outcome),
                            wrote |-> closes \/ saves,
                            context_from |-> "None"]
    /\ UNCHANGED <<sessions, ordervars, loginpos,
                   accountvars, cellvars, quotevars>>

\* where login_two can fail: the code box (line 282), the radio button
\* (line 283, query_selector gives None), the submit button (line 284),
\* the redirect to the landing page (line 286)
LoginTwoOutcomes ==
    {"code_timeout", "no_radio", "submit_timeout", "redirect_timeout",
     "redirected"}

LoginTwoReturnAlwaysTrue(outcome) == "True"

\* login_two lines 286-296: True after the redirect; the timeout of
\* wait_for_url is not the builtin TimeoutError of line 290, so it reaches
\* the outer handler like every other exception, which returns False
LoginTwoReturn(outcome) ==
    IF outcome = "redirected" THEN "True" ELSE "False"

\* login_two(code)
LoginTwo ==
    /\ sess.browser = "open"
    /\ \E outcome \in LoginTwoOutcomes, st \in StorageStates :
         LET s1 == [sess EXCEPT !.storage =
                        IF outcome = "redirected" THEN "authenticated" ELSE st]
             path == ProfilePath(sess.title)
             saves == outcome = "redirected" /\ SavesProfile(sess.title)
             closes == outcome # "redirected"
         IN  /\ sess' = IF closes THEN CloseBrowser(s1)
                        ELSE IF saves THEN SaveStorageState(s1) ELSE s1
             /\ disk' = IF closes \/ saves
                        THEN [disk EXCEPT ![path] = s1.storage] ELSE disk
             /\ closed_with' =
                    IF closes THEN [closed_with EXCEPT ![path] = s1.storage]
                    ELSE IF saves THEN [closed_with EXCEPT ![path] = "none"]
                    ELSE closed_with
             /\ teardown' = IF closes THEN teardown \o CloseBrowserCalls(s1)
                            ELSE teardown
             /\ last_op' = [op |-> "login_two", outcome |-> outcome,
                            ret |-> LoginTwoReturn(outcome),
                            wrote |-> closes \/ saves,
                            context_from |-> "None"]
    /\ UNCHANGED <<sessions, ordervars, loginpos,
                   accountvars, cellvars, quotevars>>

\* close_browser(), called by the owner of the session (test.py line 61)
SessionClose ==
    /\ sess.browser = "open"
    /\ sess' = CloseBrowser(sess)
    /\ disk' = [disk EXCEPT ![ProfilePath(sess.title)] = sess.storage]
    /\ closed_with' =
           [closed_with EXCEPT ![ProfilePath(sess.title)] = sess.storage]
    /\ teardown' = teardown \o CloseBrowserCalls(sess)
    /\ last_op' = [op |-> "close_browser", outcome |-> "", ret |-> "none",
                   wrote |-> TRUE, context_from |-> "None"]
    /\ UNCHANGED <<sessions, ordervars, loginpos,
                   accountvars, cellvars, quotevars>>

\* a machine on which no session has run yet
SessionInit ==
    /\ pc = "idle"
    /\ req = NoRequest
    /\ order_messages = InitialMessages
    /\ quote_price = ""
    /\ poll = 0
    /\ ui = FreshUi
    /\ ended = NotEnded
    /\ lpc = "idle"
    /\ shown = "blank"
    /\ steady = TRUE
    /\ iter = 0
    /\ mode = 0
    /\ login_state = 0
    /\ login_ret = "none"
    /\ sess = NoSession
    /\ teardown = <<>>
    /\ events = <<>>
    /\ otp = NoOtp
    /\ disk = EmptyDisk
    /\ sessions = 0
    /\ last_op = NoOp
    /\ closed_with = NothingClosed
    /\ acct = NewAccount
    /\ acall = NoCall
    /\ cell = NoCell
    /\ block = NoBlock
    /\ reads = <<>>
    /\ gq = NoQuote

SessionNext ==
    \/ Construct
    \/ SessionGoUrl
    \/ SessionLogin
    \/ LoginTwo
    \/ SessionClose

SpecSession == SessionInit /\ [][SessionNext]_vars

(***************************************************************************)
(* account.py lines 95-115: the text of a price cell (td 0) and of a        *)
(* quantity cell (td 3) of a data row, and the number made of it.  A text   *)
(* is a sequence of characters; a number is held as an integer count of     *)
(* units of 10^-MaxCellLen, which is exact for every text of the model.     *)
(***************************************************************************)

CellChars == {"$", ",", ".", "-", " ", "1", "2"}

Digits == {"1", "2"}

DigitOf(c) == IF c = "1" THEN 1 ELSE 2

CellTexts == UNION {[1..n -> CellChars] : n \in 0..MaxCellLen}

\* str.replace(c, "")
Remove(t, c) == SelectSeq(t, LAMBDA x : x # c)

\* str.strip()
RECURSIVE LStrip(_)
LStrip(t) == IF t # <<>> /\ Head(t) = " " THEN LStrip(Tail(t)) ELSE t

RECURSIVE RStrip(_)
RStrip(t) ==
    IF t # <<>> /\ t[Len(t)] = " " THEN RStrip(SubSeq(t, 1, Len(t) - 1)) ELSE t

Strip(t) == LStrip(RStrip(t))

\* the part of a numeral after its sign
Unsigned(t) == IF t # <<>> /\ Head(t) = "-" THEN Tail(t) ELSE t

\* float(t) does not raise ValueError: blanks around, a sign, digits with
\* at most one point and at least one digit
FloatAccepts(t) ==
    LET u == Unsigned(Strip(t))
    IN  /\ \A k \in 1..Len(u) : u[k] \in Digits \cup {"."}
        /\ \E k \in 1..Len(u) : u[k] \in Digits
        /\ Cardinality({k \in 1..Len(u) : u[k] = "."}) <= 1

RECURSIVE NumberOf(_)
NumberOf(ds) ==
    IF ds = <<>> THEN 0
    ELSE 10 * NumberOf(SubSeq(ds, 1, Len(ds) - 1)) + DigitOf(ds[Len(ds)])

\* float(t) for a text float accepts, in units of 10^-MaxCellLen
FloatOf(t) ==
    LET s == Strip(t)
        u == Unsigned(s)
        point == IF \E k \in 1..Len(u) : u[k] = "."
                 THEN CHOOSE k \in 1..Len(u) : u[k] = "."
                 ELSE Len(u) + 1
        decimals == IF point > Len(u) THEN 0 ELSE Len(u) - point
        magnitude == NumberOf(Remove(u, ".")) * 10 ^ (MaxCellLen - decimals)
    IN  IF s # u THEN 0 - magnitude ELSE magnitude

\* lines 98-106: the price cell
ParsePrice(text) ==
    LET price_text == Strip(Remove(Remove(text, "$"), ","))
    IN  IF FloatAccepts(price_text) THEN FloatOf(price_text) ELSE 0

\* lines 111-115: the quantity cell
ParseQuantity(text) ==
    IF FloatAccepts(text) THEN FloatOf(text) ELSE 0

\* one cell of a data row goes through the parser
ParseCell ==
    /\ ~cell.parsed
    /\ cell' = [cell EXCEPT !.parsed = TRUE,
                            !.value = IF cell.kind = "price"
                                      THEN ParsePrice(cell.text)
                                      ELSE ParseQuantity(cell.text)]
    /\ UNCHANGED <<block, ordervars, loginvars, sessionvars, accountvars,
                   quotevars>>

CellsInit ==
    /\ pc = "idle"
    /\ req = NoRequest
    /\ order_messages = InitialMessages
    /\ quote_price = ""
    /\ poll = 0
    /\ ui = FreshUi
    /\ ended = NotEnded
    /\ lpc = "idle"
    /\ shown = "blank"
    /\ steady = TRUE
    /\ iter = 0
    /\ mode = 0
    /\ login_state = 0
    /\ login_ret = "none"
    /\ sess = NewSession("None", FALSE)
    /\ teardown = <<>>
    /\ events = <<>>
    /\ otp = NoOtp
    /\ disk = [EmptyDisk EXCEPT ![ProfilePath(sess.title)] = "{}"]
    /\ sessions = 1
    /\ last_op = NoOp
    /\ closed_with = NothingClosed
    /\ acct = NewAccount
    /\ acall = NoCall
    /\ \E kind \in {"price", "quantity"}, text \in CellTexts :
         cell = [kind |-> kind, text |-> text, parsed |-> FALSE, value |-> 0]
    /\ block = NoBlock
    /\ reads = <<>>
    /\ gq = NoQuote

CellsNext == ParseCell

SpecCells == CellsInit /\ [][CellsNext]_vars

(***************************************************************************)
(* account.py lines 61-143: _parse_rows on the rows of one table body.     *)
(* A row is given by how many th and td cells it has (and, for row 0, the  *)
(* bucket its th names); the text of a cell is fixed by its column and its *)
(* row, so that a parsed value tells which row it came from.               *)
(* A dictionary is a function whose DOMAIN is its set of keys.             *)
(***************************************************************************)

Float(x) == [tag |-> "float", num |-> x, col |-> "", row |-> 0]

\* inner_text() of a th, or of the dollar_change / percent_change td
InnerText(col, row) == [tag |-> "str", num |-> 0, col |-> col, row |-> row]

RECURSIVE Repeat(_, _)
Repeat(c, n) == IF n = 0 THEN <<>> ELSE <<c>> \o Repeat(c, n - 1)

\* the text the page shows in the price and quantity cells of row i, the
\* first data row being row 3
PriceText(i) == <<"$">> \o Repeat("1", i - 2)

QuantityText(i) == Repeat("2", i - 2)

Fields ==
    {"symbol", "description", "price", "dollar_change", "percent_change",
     "quantity"}

\* lines 89-115: the cell of a row that feeds a field, if the row has it
Has(row, f) ==
    CASE f = "symbol" -> row.ths >= 2
      [] f = "description" -> row.ths >= 3
      [] f = "price" -> row.tds >= 1
      [] f = "dollar_change" -> row.tds >= 2
      [] f = "percent_change" -> row.tds >= 3
      [] f = "quantity" -> row.tds >= 4

\* lines 90-115: what is appended to the column of f for row i
CellValue(f, i) ==
    CASE f = "price" -> Float(ParsePrice(PriceText(i)))
      [] f = "quantity" -> Float(ParseQuantity(QuantityText(i)))
      [] OTHER -> InnerText(f, i)

\* lines 78, 87-115: the column of f collected from rows i.. (row 0 is the
\* bucket header, row 1 the column headings: TLA+ indices 1 and 2)
RECURSIVE Collect(_, _, _)
Collect(rows, i, f) ==
    IF i > Len(rows) THEN <<>>
    ELSE (IF i >= 3 /\ Has(rows[i], f) THEN <<CellValue(f, i)>> ELSE <<>>)
             \o Collect(rows, i + 1, f)

Longest(cols) ==
    CHOOSE n \in {Len(cols[f]) : f \in Fields} :
        \A f \in Fields : Len(cols[f]) <= n

ZipShortest(cols) ==
    [k \in 1..(CHOOSE n \in {Len(cols[f]) : f \in Fields} :
                  \A f \in Fields : Len(cols[f]) >= n)
       |-> [f \in Fields |-> cols[f][k]]]

\* lines 117-142: zip_longest(..., fillvalue=None) into records
ZipLongest(cols) ==
    [k \in 1..Longest(cols) |->
        [f \in Fields |-> IF k <= Len(cols[f]) THEN cols[f][k] ELSE NoneValue]]

\* d[k] = v on a dictionary
Put(d, k, v) ==
    IF k \in DOMAIN d THEN [d EXCEPT ![k] = v] ELSE d @@ (k :> v)

EmptyDict == <<>>

\* the key Python's None makes
NoneKey == "<None>"

\* lines 80-86: row 0 names the bucket and makes room for it
WithBucket(positions, rows, account_id) ==
    IF rows[1].ths = 0 THEN positions
    ELSE LET of_account == IF account_id \in DOMAIN positions
                           THEN positions[account_id] ELSE EmptyDict
             type == rows[1].bucket
         IN  Put(positions, account_id,
                 IF type \in DOMAIN of_account THEN of_account
                 ELSE Put(of_account, type, <<>>))

\* _parse_rows(table_rows, account_id): the dictionary afterwards, and the
\* exception that left the function, if one did
ParseRows(positions, rows, account_id) ==
    IF rows = <<>> THEN [positions |-> positions, raised |-> ""]
    ELSE LET type == IF rows[1].ths = 0 THEN NoneKey ELSE rows[1].bucket
             made == WithBucket(positions, rows, account_id)
             stocks == ZipLongest([f \in Fields |-> Collect(rows, 1, f)])
         IN  IF stocks = <<>> THEN [positions |-> made, raised |-> ""]
             ELSE IF account_id \notin DOMAIN made
             THEN [positions |-> made, raised |-> "KeyError"]
             ELSE [positions |->
                       Put(made, account_id, Put(made[account_id], type, stocks)),
                   raised |-> ""]

\* row 0 of a table body: with a th naming the bucket, or without
HeaderRows ==
    {[ths |-> 1, tds |-> 0, bucket |-> "Stocks"],
     [ths |-> 0, tds |-> 1, bucket |-> ""]}

\* row 1: the column headings
Headings == [ths |-> 3, tds |-> 4, bucket |-> ""]

\* data rows: complete ones, and ones with cells missing
DataRows ==
    {[ths |-> 3, tds |-> 4, bucket |-> ""],
     [ths |-> 3, tds |-> 1, bucket |-> ""],
     [ths |-> 3, tds |-> 0, bucket |-> ""],
     [ths |-> 2, tds |-> 4, bucket |-> ""],
     [ths |-> 1, tds |-> 0, bucket |-> ""]}

TableBodies ==
    {<<>>} \cup {<<h>> : h \in HeaderRows}
    \cup UNION {{<<h, Headings>> \o d : h \in HeaderRows, d \in [1..n -> DataRows]}
                : n \in 0..MaxRows}

\* a record an earlier scrape stored
OldRecord == [f \in Fields |-> InnerText(f, 0)]

\* accounts_positions before the call: empty, or from an earlier scrape
EarlierPositions ==
    {EmptyDict,
     "A1" :> EmptyDict,
     "A1" :> ("Stocks" :> <<OldRecord>>)}

\* one table body goes through _parse_rows
ParseRowsCall ==
    /\ ~block.done
    /\ LET r == ParseRows(block.before, block.rows, "A1")
       IN  block' = [block EXCEPT !.after = r.positions, !.raised = r.raised,
                                  !.done = TRUE]
    /\ UNCHANGED <<cell, ordervars, loginvars, sessionvars, accountvars,
                   quotevars>>

RowsInit ==
    /\ pc = "idle"
    /\ req = NoRequest
    /\ order_messages = InitialMessages
    /\ quote_price = ""
    /\ poll = 0
    /\ ui = FreshUi
    /\ ended = NotEnded
    /\ lpc = "idle"
    /\ shown = "blank"
    /\ steady = TRUE
    /\ iter = 0
    /\ mode = 0
    /\ login_state = 0
    /\ login_ret = "none"
    /\ sess = NewSession("None", FALSE)
    /\ teardown = <<>>
    /\ events = <<>>
    /\ otp = NoOtp
    /\ disk = [EmptyDisk EXCEPT ![ProfilePath(sess.title)] = "{}"]
    /\ sessions = 1
    /\ last_op = NoOp
    /\ closed_with = NothingClosed
    /\ acct = NewAccount
    /\ acall = NoCall
    /\ cell = NoCell
    /\ \E rows \in TableBodies, before \in EarlierPositions :
         block = [rows |-> rows, before |-> before, after |-> before,
                  done |-> FALSE, raised |-> ""]
    /\ reads = <<>>
    /\ gq = NoQuote

RowsNext == ParseRowsCall

SpecRows == RowsInit /\ [][RowsNext]_vars

(***************************************************************************)
(* account.py lines 145-220: get_account_ids and get_holdings on the       *)
(* holdings page.  The page is a list of account blocks (the elements      *)
(* matching #overflow-override); between two calls the holdings of an     *)
(* account may change, and every wait for the page may succeed or time out *)
(* at each call.                                                           *)
(***************************************************************************)

\* table bodies of the page: a bucket with two full rows, a bucket with one
\* row, and the body that ends a table with the account's total
StocksBody ==
    <<[ths |-> 1, tds |-> 0, bucket |-> "Stocks"], Headings,
      [ths |-> 3, tds |-> 4, bucket |-> ""], [ths |-> 3, tds |-> 4, bucket |-> ""]>>

EtfBody ==
    <<[ths |-> 1, tds |-> 0, bucket |-> "ETFs"], Headings,
      [ths |-> 3, tds |-> 4, bucket |-> ""]>>

TotalsBody == <<[ths |-> 0, tds |-> 1, bucket |-> ""]>>

\* table_wrapper.query_selector_all("tbody")
SampleTables ==
    {<<TotalsBody>>, <<StocksBody, TotalsBody>>,
     <<StocksBody, EtfBody, TotalsBody>>}

\* an account block: what its label says, whether its table shows up, and
\* the bodies of the table (which are read of a brokerage account only)
Blocks ==
    [label : {"brokerage"}, table : {"found", "timeout"}, bodies : SampleTables]
    \cup {[label |-> "other", table |-> "found",
           bodies |-> <<StocksBody, TotalsBody>>]}

HoldingsPages == UNION {[1..n -> Blocks] : n \in 0..MaxBlocks}

\* the number the label of block i ends with
AccountIdAt(i) ==
    CASE i = 1 -> "A1" [] i = 2 -> "A2" [] i = 3 -> "A3" [] OTHER -> "A4"

GetAccountIdOfAnyBlock(page, i) == AccountIdAt(i)

\* _get_account_id lines 54-59: the number of a brokerage account, or None
GetAccountId(page, i) ==
    IF page[i].label = "brokerage" THEN AccountIdAt(i) ELSE NoneKey

\* line 156: for _ in range(1)
LoadAttempts == 1

\* lines 158-168: how one attempt to load the page ends
LoadOutcomes == {"loaded", "expand_timeout", "overflow_timeout"}

\* lines 169-182: the loop over the blocks, from block i on
RECURSIVE AccountIdsWalk(_, _, _)
AccountIdsWalk(a, page, i) ==
    IF i > Len(page) THEN [acct |-> a, ret |-> "True"]
    ELSE LET account_id == GetAccountId(page, i)
             a1 == [a EXCEPT !.account_numbers = Append(@, account_id)]
         IN  IF account_id = NoneKey THEN AccountIdsWalk(a, page, i + 1)
             ELSE IF page[i].table = "timeout"
             THEN [acct |-> a1, ret |-> "False"]
             ELSE AccountIdsWalk(
                      [a1 EXCEPT !.account_totals =
                           Put(@, account_id, InnerText("total", i))],
                      page, i + 1)

\* get_account_ids()
GetAccountIds ==
    /\ acall.calls < MaxCalls
    /\ \E outcomes \in [1..LoadAttempts -> LoadOutcomes] :
         LET bound == \E k \in 1..LoadAttempts : outcomes[k] = "loaded"
             loads == IF bound
                      THEN CHOOSE k \in 1..LoadAttempts :
                               /\ outcomes[k] = "loaded"
                               /\ \A j \in 1..(k - 1) : outcomes[j] # "loaded"
                      ELSE LoadAttempts
             walk == AccountIdsWalk(acct, acall.page, 1)
         IN  /\ acct' = IF bound THEN walk.acct ELSE acct
             /\ acall' = [acall EXCEPT
                              !.op = "get_account_ids",
                              !.ret = IF bound THEN walk.ret ELSE "none",
                              !.raised = IF bound THEN ""
                                         ELSE "UnboundLocalError",
                              !.loaded = bound,
                              !.loads = loads,
                              !.calls = @ + 1,
                              !.totals_before = acct.account_totals]
    /\ UNCHANGED <<cellvars, ordervars, loginvars, sessionvars, quotevars>>

\* lines 201-206: the headline of the page and the number made of it
TotalText == <<"$", "1", ",", "2", "2">>

\* lines 215-217: the bodies of one table, from body j on
RECURSIVE BodiesWalk(_, _, _, _)
BodiesWalk(positions, bodies, j, account_id) ==
    IF j > Len(bodies) THEN [positions |-> positions, raised |-> ""]
    ELSE LET r == ParseRows(positions, bodies[j], account_id)
         IN  IF r.raised # "" THEN r
             ELSE BodiesWalk(r.positions, bodies, j + 1, account_id)

\* lines 209-218: the loop over the blocks, from block i on
RECURSIVE HoldingsWalk(_, _, _)
HoldingsWalk(a, page, i) ==
    IF i > Len(page) THEN [acct |-> a, ret |-> "True", raised |-> ""]
    ELSE LET account_id == GetAccountId(page, i)
             r == BodiesWalk(a.accounts_positions, page[i].bodies, 1, account_id)
             a1 == [a EXCEPT !.accounts_positions = r.positions]
         IN  IF account_id = NoneKey THEN HoldingsWalk(a, page, i + 1)
             ELSE IF page[i].table = "timeout"
             THEN [acct |-> a, ret |-> "False", raised |-> ""]
             ELSE IF r.raised # ""
             THEN [acct |-> a1, ret |-> "none", raised |-> r.raised]
             ELSE HoldingsWalk(a1, page, i + 1)

\* lines 196-208: how far the page load of get_holdings gets
HoldingsOutcomes ==
    {"loaded", "expand_timeout", "total_timeout", "overflow_timeout"}

\* get_holdings()
GetHoldings ==
    /\ acall.calls < MaxCalls
    /\ \E outcome \in HoldingsOutcomes :
         LET a1 == [acct EXCEPT !.as_of_time = "set"]
             a2 == [a1 EXCEPT !.total_value = Float(ParsePrice(TotalText))]
             walk == HoldingsWalk(a2, acall.page, 1)
         IN  /\ acct' = CASE outcome = "loaded" -> walk.acct
                           [] outcome = "overflow_timeout" -> a2
                           [] OTHER -> a1
             /\ acall' = [acall EXCEPT
                              !.op = "get_holdings",
                              !.ret = IF outcome = "loaded" THEN walk.ret
                                      ELSE "False",
                              !.raised = IF outcome = "loaded" THEN walk.raised
                                         ELSE "",
                              !.loaded = outcome = "loaded",
                              !.loads = 1,
                              !.calls = @ + 1,
                              !.totals_before = acct.account_totals]
    /\ UNCHANGED <<cellvars, ordervars, loginvars, sessionvars, quotevars>>

\* between two scrapes positions are bought or sold: the table of a
\* brokerage account shows other bodies at the next load of the page
HoldingsChange ==
    /\ acall.calls >= 1
    /\ acall.calls < MaxCalls
    /\ acall.op # "holdings_change"
    /\ \E i \in 1..Len(acall.page) :
         /\ acall.page[i].label = "brokerage"
         /\ \E b \in SampleTables \ {acall.page[i].bodies} :
              acall' = [acall EXCEPT !.page[i].bodies = b,
                                     !.op = "holdings_change",
                                     !.ret = "none",
                                     !.raised = ""]
    /\ UNCHANGED <<acct, cellvars, ordervars, loginvars, sessionvars, quotevars>>

\* an AllAccount object just built, in front of some holdings page
AccountInit ==
    /\ pc = "idle"
    /\ req = NoRequest
    /\ order_messages = InitialMessages
    /\ quote_price = ""
    /\ poll = 0
    /\ ui = FreshUi
    /\ ended = NotEnded
    /\ lpc = "idle"
    /\ shown = "blank"
    /\ steady = TRUE
    /\ iter = 0
    /\ mode = 0
    /\ login_state = 0
    /\ login_ret = "none"
    /\ sess = NewSession("None", FALSE)
    /\ teardown = <<>>
    /\ events = <<>>
    /\ otp = NoOtp
    /\ disk = [EmptyDisk EXCEPT ![ProfilePath(sess.title)] = "{}"]
    /\ sessions = 1
    /\ last_op = NoOp
    /\ closed_with = NothingClosed
    /\ acct = NewAccount
    /\ \E page \in HoldingsPages : acall = [NoCall EXCEPT !.page = page]
    /\ cell = NoCell
    /\ block = NoBlock
    /\ reads = <<>>
    /\ gq = NoQuote

AccountNext ==
    \/ GetAccountIds
    \/ GetHoldings
    \/ HoldingsChange

SpecAccount == AccountInit /\ [][AccountNext]_vars

(***************************************************************************)
(* order.py lines 323-350: get_quote, next to the quote poll of            *)
(* place_order (lines 120-133) on the same reads of the quote field:       *)
(* reads[k] is what the field shows at the k-th poll.                      *)
(***************************************************************************)

\* line 341: for _ in range(3)
GetQuotePolls == 3

\* line 347: float(quote_price.replace("$", "").replace(",", ""))
QuoteNumber(q) == IF q = LoadedQuote THEN "21.5" ELSE "ValueError"

\* lines 346-349: what one poll leaves in quote_price
PolledPrice(q) == IF q # Placeholder THEN QuoteNumber(q) ELSE "None"

\* lines 341-350: the loop has no break; each poll overwrites quote_price
RECURSIVE GetQuoteLoop(_, _, _)
GetQuoteLoop(rs, k, price) ==
    IF k > GetQuotePolls THEN price
    ELSE GetQuoteLoop(rs, k + 1, PolledPrice(rs[k]))

\* lines 120-126: the poll of place_order stops at the first quote
RECURSIVE PlaceOrderLoop(_, _)
PlaceOrderLoop(rs, k) ==
    IF BreaksPoll(rs[k]) \/ k = QuotePolls THEN rs[k]
    ELSE PlaceOrderLoop(rs, k + 1)

\* get_quote(symbol); its waits are not wrapped
GetQuote ==
    /\ gq.get_quote = "none"
    /\ \E waits_ok \in BOOLEAN :
         gq' = [gq EXCEPT !.get_quote =
                   IF waits_ok THEN GetQuoteLoop(reads, 1, "None")
                   ELSE "PlaywrightTimeoutError"]
    /\ UNCHANGED <<reads, cellvars, ordervars, loginvars, sessionvars,
                   accountvars>>

\* step 2 of place_order on the same reads (lines 112-133)
PlaceOrderQuote ==
    /\ gq.place_order = "none"
    /\ \E waits_ok \in BOOLEAN :
         gq' = [gq EXCEPT !.place_order =
                   IF ~waits_ok THEN "PlaywrightTimeoutError"
                   ELSE IF QuoteLoaded(PlaceOrderLoop(reads, 1))
                   THEN "accepted" ELSE "rejected"]
    /\ UNCHANGED <<reads, cellvars, ordervars, loginvars, sessionvars,
                   accountvars>>

QuoteInit ==
    /\ pc = "idle"
    /\ req = NoRequest
    /\ order_messages = InitialMessages
    /\ quote_price = ""
    /\ poll = 0
    /\ ui = FreshUi
    /\ ended = NotEnded
    /\ lpc = "idle"
    /\ shown = "blank"
    /\ steady = TRUE
    /\ iter = 0
    /\ mode = 0
    /\ login_state = 0
    /\ login_ret = "none"
    /\ sess = NewSession("None", FALSE)
    /\ teardown = <<>>
    /\ events = <<>>
    /\ otp = NoOtp
    /\ disk = [EmptyDisk EXCEPT ![ProfilePath(sess.title)] = "{}"]
    /\ sessions = 1
    /\ last_op = NoOp
    /\ closed_with = NothingClosed
    /\ acct = NewAccount
    /\ acall = NoCall
    /\ cell = NoCell
    /\ block = NoBlock
    /\ reads \in [1..QuotePolls -> {Placeholder, LoadedQuote}]
    /\ gq = NoQuote

QuoteNext ==
    \/ GetQuote
    \/ PlaceOrderQuote

SpecQuote == QuoteInit /\ [][QuoteNext]_vars

---------------------------------------------------------------------------
(* Properties of place_order (checked under SpecOrder) *)

Populated(v) == v # Empty

\* the call returned from the dry-run return of line 262
DryRunSuccess == pc = "returned" /\ ended.at = "submit"

\* the call clicked Submit and parsed the confirmation banners
RealSuccess ==
    /\ pc = "returned"
    /\ ended.at = "confirmation"
    /\ ui.banners \in {"submitted_at", "submitted_on"}

\* the call returned because the order was found invalid: the quote did not
\* load, the duration is not allowed, or the site showed its validation panel
ValidationFailure ==
    pc = "returned" /\ ended.at \in {"quote_check", "price_type", "banner"}

\* C1: with dry_run = true the Submit order control is never clicked,
\* whatever the page answers; with dry_run = false it is clicked at most
\* once in a call.
C1_DryRunNeverSubmits ==
    /\ req.dry_run => ui.submit_clicks = 0
    /\ ui.submit_clicks <= 1

\* a dry run that saw the Submit order control and returned
C1_Witness == pc = "returned" /\ req.dry_run /\ ui.submit_visible = "yes"

\* C2: an order of price type LIMIT, STOP or STOP_LIMIT whose duration is
\* neither DAY nor GOOD_TILL_CANCELLED does not end in a timeout raised to
\* the caller: it returns a result with ORDER INVALID populated and ORDER
\* PREVIEW and ORDER CONFIRMATION empty, and it never clicks a price-type
\* control, Preview Order or Submit and never reaches the confirmation step.
C2_InvalidDurationReturns ==
    (/\ pc # "idle"
     /\ req.price_type \in {"LIMIT", "STOP", "STOP_LIMIT"}
     /\ req.duration \notin {"DAY", "GOOD_TILL_CANCELLED"})
    => /\ ~(pc = "raised" /\ ended.exc = "PlaywrightTimeoutError")
       /\ pc = "returned" =>
             /\ Populated(order_messages.INVALID)
             /\ order_messages.PREVIEW = Empty
             /\ order_messages.CONFIRMATION = Empty
       /\ ui.price_type_clicked = ""
       /\ ui.preview_clicks = 0
       /\ ui.submit_clicks = 0
       /\ ~ui.confirm_step

\* C3: if all QuotePolls polls read the placeholder, the call returns with
\* ORDER INVALID = "Quote did not load correctly.", ORDER PREVIEW and ORDER
\* CONFIRMATION empty, and none of the later steps is performed.
C3_QuoteNeverLoads ==
    (poll = QuotePolls /\ quote_price = Placeholder)
    => /\ pc \in {"quote_check", "returned"}
       /\ pc = "returned" =>
             order_messages =
                 [INVALID |-> Str("Quote did not load correctly."),
                  PREVIEW |-> Empty, CONFIRMATION |-> Empty]
       /\ ~ui.modal_dismissed
       /\ ui.side_clicked = ""
       /\ ~ui.quantity_entered
       /\ ui.price_type_clicked = ""
       /\ ~ui.limit_filled /\ ~ui.stop_filled
       /\ ui.duration_clicked = ""
       /\ ~ui.panel_found
       /\ ui.preview_clicks = 0
       /\ ui.submit_clicks = 0
       /\ ~ui.confirm_step

\* twelve placeholder reads, and the call has returned
C3_Witness == pc = "returned" /\ poll = QuotePolls /\ quote_price = Placeholder

\* C4: whenever the validation panel is found, the call returns with ORDER
\* INVALID holding the panel's header and items and with ORDER PREVIEW and
\* ORDER CONFIRMATION empty; Preview Order and Submit are never clicked.
C4_PanelFoundReturns ==
    ui.panel_found
    => /\ pc = "returned"
       /\ order_messages.INVALID.tag = "dict"
       /\ order_messages.INVALID.str = WarningHeader
       /\ order_messages.PREVIEW = Empty
       /\ order_messages.CONFIRMATION = Empty
       /\ ui.preview_clicks = 0
       /\ ui.submit_clicks = 0

\* C5: a wait that times out is raised to the caller at no step other than
\* the Submit order step.
C5_OnlySubmitRaises ==
    (pc = "raised" /\ ended.exc = "PlaywrightTimeoutError") => ended.at = "submit"

\* C6: if the Submit order control does not become visible, the call raises:
\* it returns no result, records no ORDER PREVIEW, clicks nothing and never
\* gets to confirmation parsing.
C6_MissingSubmitRaises ==
    ui.submit_visible = "no"
    => /\ pc = "raised"
       /\ ended.at = "submit"
       /\ order_messages.PREVIEW = Empty
       /\ order_messages.CONFIRMATION = Empty
       /\ ui.submit_clicks = 0
       /\ ~ui.confirm_step

\* the call came to the submit step and the control did not show
C6_Witness == ui.submit_visible = "no" /\ ui.preview_clicks = 1

\* C7 as first stated: on success exactly one of ORDER PREVIEW and ORDER
\* CONFIRMATION is populated (the preview for a dry run, the confirmation
\* for a real submission); on a validation failure ORDER INVALID is
\* populated and the other two are empty.
C7_ExactlyOnePopulated ==
    /\ DryRunSuccess =>
          Populated(order_messages.PREVIEW) /\ ~Populated(order_messages.CONFIRMATION)
    /\ RealSuccess =>
          ~Populated(order_messages.PREVIEW) /\ Populated(order_messages.CONFIRMATION)
    /\ ValidationFailure =>
          /\ Populated(order_messages.INVALID)
          /\ ~Populated(order_messages.PREVIEW)
          /\ ~Populated(order_messages.CONFIRMATION)

\* C7 as amended: a successful dry run has ORDER PREVIEW populated and ORDER
\* CONFIRMATION empty; a successful real submission has both ORDER PREVIEW
\* and ORDER CONFIRMATION populated; on a validation failure ORDER INVALID
\* is populated and the other two are empty.
C7_PreviewKeptOnSubmission ==
    /\ DryRunSuccess =>
          /\ req.dry_run
          /\ order_messages.PREVIEW = Str("Order preview loaded correctly.")
          /\ ~Populated(order_messages.CONFIRMATION)
    /\ RealSuccess =>
          /\ ~req.dry_run
          /\ order_messages.PREVIEW = Str("Order preview loaded correctly.")
          /\ Populated(order_messages.CONFIRMATION)
          /\ order_messages.CONFIRMATION.tag = "dict"
    /\ ValidationFailure =>
          /\ Populated(order_messages.INVALID)
          /\ ~Populated(order_messages.PREVIEW)
          /\ ~Populated(order_messages.CONFIRMATION)

\* a real submission whose confirmation was parsed
C7_Witness == RealSuccess /\ ui.submit_clicks = 1

\* C8: ORDER INVALID is empty in the result of a successful dry run or
\* submission, so the test script's reading of a result (ORDER INVALID not
\* empty and ORDER CONFIRMATION empty means invalid) is right for every
\* returned result.
C8_InvalidEmptyUnlessRejected ==
    pc = "returned"
    => /\ (DryRunSuccess \/ RealSuccess) => order_messages.INVALID = Empty
       /\ ScriptReportsInvalid(order_messages) <=> ValidationFailure

\* C9: once Submit is clicked the call does not raise, and if the
\* order-number banner or both timestamp banners never appear it returns
\* with ORDER CONFIRMATION set to the failure string.
C9_NoBannerIsNotRaised ==
    ui.submit_clicks = 1
    => /\ pc # "raised"
       /\ (ui.confirm_step /\ ui.banners \in {"no_order_number", "no_timestamp"})
          => /\ pc = "returned"
             /\ order_messages.CONFIRMATION =
                    Str("No order confirmation page found. Order Failed.")

\* Submit was clicked, the order number showed and no timestamp did
C9_Witness ==
    pc = "returned" /\ ui.submit_clicks = 1 /\ ui.banners = "no_timestamp"

---------------------------------------------------------------------------
(* Properties of login (checked under SpecLogin) *)

\* close_browser has run to its end on the session
TornDown ==
    /\ Len(teardown) >= 3
    /\ SubSeq(teardown, Len(teardown) - 2, Len(teardown)) =
           <<"save_storage_state", "browser.close", "playwright.stop">>
    /\ sess.browser = "closed"
    /\ sess.playwright = "stopped"
    /\ sess.profile_file = sess.storage

\* C10: if find_login_state uses up its LoginStateTries iterations without
\* recognizing a state, login returns no value: it raises, and by then the
\* storage state is saved, the browser closed and the driver stopped.
C10_UndeterminedStateRaises ==
    iter = LoginStateTries
    => /\ login_state = 0
       /\ lpc \in {"dispatch", "except", "done"}
       /\ login_ret \in {"none", "raised"}
       /\ lpc = "done" => login_ret = "raised" /\ TornDown
       /\ lpc # "done" => teardown = <<>> /\ sess.browser = "open"

\* every iteration went by unrecognized and login has raised
C10_Witness == iter = LoginStateTries /\ login_ret = "raised"

\* C11: login returns True exactly when a 2FA code is needed (a text code
\* was requested, or the code-entry form is showing), and False only when
\* the classifier found the session already logged in.
C11_ReturnTellsOutcome ==
    lpc = "done"
    => /\ login_ret = "True" <=>
             (login_state = 5
              \/ (Len(events) > 0 /\ events[Len(events)] = "text_requested"))
       /\ login_ret = "False" => login_state = 1

(***************************************************************************)
(* Properties of the session and its profile file (checked under           *)
(* SpecSession)                                                            *)
(***************************************************************************)

RECURSIVE CountOf(_, _)
CountOf(x, seq) ==
    IF seq = <<>> THEN 0
    ELSE (IF Head(seq) = x THEN 1 ELSE 0) + CountOf(x, Tail(seq))

C13_NamedProfileRoundTrip ==
    (/\ last_op.op = "construct"
     /\ sess.title # "None"
     /\ closed_with[ProfilePath(sess.title)] # "none")
    => /\ last_op.context_from = ProfilePath(sess.title)
       /\ sess.storage = closed_with[ProfilePath(sess.title)]

C13_Witness ==
    /\ last_op.op = "construct"
    /\ sess.title = "profile"
    /\ closed_with["Vanguard_profile.json"] = "authenticated"
    /\ sess.storage = "authenticated"

\* the position of a call in the teardown log (0 when it is not there)
PositionOf(x, seq) ==
    IF \E k \in 1..Len(seq) : seq[k] = x
    THEN CHOOSE k \in 1..Len(seq) : seq[k] = x
    ELSE 0

\* C14: close_browser writes the session's current storage state to the
\* profile file before it closes the browser and stops Playwright, for a
\* named and for an unnamed session alike.
C14_CloseWritesBeforeClosing ==
    sess.browser = "closed"
    => /\ disk[ProfilePath(sess.title)] = sess.storage
       /\ sess.profile_file = sess.storage
       /\ PositionOf("save_storage_state", teardown) > 0
       /\ PositionOf("save_storage_state", teardown)
             < PositionOf("browser.close", teardown)
       /\ PositionOf("browser.close", teardown)
             < PositionOf("playwright.stop", teardown)

C14_Witness ==
    /\ last_op.op = "close_browser"
    /\ sess.title = "None"
    /\ sess.browser = "closed"
    /\ disk["Vanguard.json"] = "visited"

\* C15 as stated: the profile file is written only after a successful 2FA
\* submission and when the browser is closed.
C15_OnlyTwoWritePoints ==
    last_op.wrote
    => \/ last_op.op = "login_two" /\ last_op.ret = "True"
       \/ sess.browser = "closed"

\* C15, amended: the profile file changes only when the constructor creates
\* a missing file, when login's request for a text code times out on a named
\* profile, when login_two succeeds on a named profile, and when
\* close_browser runs (called by the owner, or by the failure paths of login
\* and login_two); go_url never changes it.
C15_WritePoints ==
    [][disk' # disk
       => \/ /\ last_op'.op = "construct"
             /\ disk[ProfilePath(sess'.title)] = "absent"
             /\ disk' = [disk EXCEPT ![ProfilePath(sess'.title)] = "{}"]
          \/ /\ last_op'.op = "login"
             /\ last_op'.outcome = "text_timeout"
             /\ sess.title # "None"
             /\ disk' = [disk EXCEPT ![ProfilePath(sess.title)] = sess'.storage]
          \/ /\ last_op'.op = "login_two"
             /\ last_op'.ret = "True"
             /\ sess.title # "None"
             /\ disk' = [disk EXCEPT ![ProfilePath(sess.title)] = sess'.storage]
          \/ /\ sess.browser = "open"
             /\ sess'.browser = "closed"
             /\ disk' = [disk EXCEPT ![ProfilePath(sess.title)] = sess'.storage]
      ]_vars

C15_Witness ==
    /\ last_op.op = "login"
    /\ last_op.outcome = "text_timeout"
    /\ last_op.wrote
    /\ sess.browser = "open"
    /\ disk["Vanguard_profile.json"] = "visited"

(***************************************************************************)
(* Properties of the holdings parser (checked under SpecCells, SpecRows)   *)
(***************************************************************************)

\* C18: a price or quantity cell whose text is a number once '$' and ','
\* are removed parses to that number, and any other text parses to 0.0.
C18_CellParse ==
    cell.parsed
    => LET clean == Strip(Remove(Remove(cell.text, "$"), ","))
       IN  cell.value = IF FloatAccepts(clean) THEN FloatOf(clean) ELSE 0

\* how many data rows of the block give a cell to field f
CountOfField(f) ==
    Cardinality({i \in 3..Len(block.rows) : Has(block.rows[i], f)})

\* the block's collected columns differ in length
Mismatched == \E f, g \in Fields : CountOfField(f) # CountOfField(g)

\* the row the k-th entry of the column of f comes from
SourceRow(f, k) ==
    CHOOSE i \in 3..Len(block.rows) :
        /\ Has(block.rows[i], f)
        /\ Cardinality({j \in 3..i : Has(block.rows[j], f)}) = k

C16_RetriesOnceThenFalse ==
    (acall.op = "get_account_ids" /\ ~acall.loaded)
    => /\ acall.loads = 2
       /\ acall.raised = ""
       /\ acall.ret = "False"

\* the blocks of the page that are brokerage accounts
BrokerageBlocks ==
    {i \in 1..Len(acall.page) : acall.page[i].label = "brokerage"}

C20_GetQuoteAgreesWithPlaceOrder ==
    /\ gq.get_quote \notin {"none", "PlaywrightTimeoutError"}
         => (gq.get_quote = "None"
               <=> \A k \in 1..GetQuotePolls : reads[k] = Placeholder)
    /\ (gq.get_quote \notin {"none", "PlaywrightTimeoutError"}
          /\ gq.place_order = "accepted")
         => gq.get_quote = QuoteNumber(LoadedQuote)


(***************************************************************************)
(* Further properties of place_order (checked under SpecOrder)             *)
(***************************************************************************)

\* a list with every run of equal neighbours collapsed to one item
RECURSIVE Collapse(_)
Collapse(items) ==
    IF Len(items) <= 1 THEN items
    ELSE IF items[1] = items[2] THEN Collapse(Tail(items))
    ELSE <<items[1]>> \o Collapse(Tail(items))

\* C24: when the validation panel is found with list items L, the call
\* returns, and ORDER INVALID holds the header with L, consecutive repeats
\* collapsed to one; this for every L.
C24_PanelItemsCollapsed ==
    ui.panel_found
    => /\ pc = "returned"
       /\ order_messages.INVALID =
             WarningText(WarningHeader, Collapse(ui.panel_items))

\* the place of a step in the listing of place_order
StepRank(p) ==
    CASE p = "idle" -> 0
      [] p = "go_url" -> 1
      [] p = "account" -> 2
      [] p = "quote_box" -> 3
      [] p = "quote_poll" -> 4
      [] p = "quote_check" -> 5
      [] p = "modal" -> 6
      [] p = "side" -> 7
      [] p = "quantity" -> 8
      [] p = "price_type" -> 9
      [] p = "duration" -> 10
      [] p = "continue" -> 11
      [] p = "banner" -> 12
      [] p = "preview" -> 13
      [] p = "after_hours" -> 14
      [] p = "submit" -> 15
      [] p = "survey" -> 16
      [] p = "confirmation" -> 17
      [] OTHER -> 18

\* C25 as stated: the steps go forward only, and whenever Submit order was
\* clicked the quote was resolved, side and quantity were entered, no
\* validation panel was found and Preview Order was clicked.
C25_SubmitAfterEveryGate ==
    [][/\ StepRank(pc') >= StepRank(pc)
       /\ ui'.submit_clicks > 0
            => /\ quote_price' # Placeholder
               /\ ui'.side_clicked # ""
               /\ ui'.quantity_entered
               /\ ~ui'.panel_found
               /\ ui'.preview_clicks > 0]_vars

\* C25, amended: the steps go forward only, and whenever Submit order was
\* clicked the quote was resolved, side and quantity were entered, no
\* validation panel was found and the Submit order control was seen
\* visible; the click on Preview Order was tried at most once and is not
\* among the gates, its timeout being swallowed.
C25_SubmitAfterCodeGates ==
    [][/\ StepRank(pc') >= StepRank(pc)
       /\ ui'.preview_clicks <= 1
       /\ ui'.submit_clicks > 0
            => /\ quote_price' # Placeholder
               /\ ui'.side_clicked = (IF req'.order_type = "BUY" THEN "Buy"
                                      ELSE "Sell")
               /\ ui'.quantity_entered
               /\ ~ui'.panel_found
               /\ ui'.submit_visible = "yes"
               /\ ui'.submit_clicks = 1]_vars

C25_Witness ==
    /\ ui.submit_clicks = 1
    /\ ui.preview_clicks = 0
    /\ ui.quantity_entered
    /\ pc = "returned"

\* C26: the limit price is filled only for LIMIT and STOP_LIMIT, the stop
\* price only for STOP and STOP_LIMIT; for MARKET neither is filled.
C26_PricesOnlyWhenRequired ==
    /\ ui.limit_filled => req.price_type \in {"LIMIT", "STOP_LIMIT"}
    /\ ui.stop_filled => req.price_type \in {"STOP", "STOP_LIMIT"}
    /\ req.price_type = "MARKET" => ~ui.limit_filled /\ ~ui.stop_filled

C26_Witness ==
    /\ req.price_type = "STOP_LIMIT"
    /\ ui.limit_filled
    /\ ui.stop_filled
    /\ ui.submit_clicks = 1

\* C27: a LIMIT, STOP or STOP_LIMIT order that reaches Preview Order or the
\* submit click had its price-type control clicked and its required price
\* fields filled.
C27_NoOrderWithoutItsPrice ==
    (req.price_type # "MARKET" /\ (ui.preview_clicks > 0 \/ ui.submit_clicks > 0))
    => /\ ui.price_type_clicked = PriceTypeLabel(req.price_type)
       /\ req.price_type \in {"LIMIT", "STOP_LIMIT"} => ui.limit_filled
       /\ req.price_type \in {"STOP", "STOP_LIMIT"} => ui.stop_filled

\* C28: whenever Submit order was clicked, the requested account had been
\* selected in the account picker.
C28_SubmitOnRequestedAccount ==
    ui.submit_clicks > 0 => ui.account_selected


(***************************************************************************)
(* Further properties of login (checked under SpecLogin)                   *)
(***************************************************************************)

Happened(e) == PositionOf(e, events) > 0

Before(e, f) == PositionOf(e, events) < PositionOf(f, events)

StateCode(p) ==
    CASE p = "dashboard" -> 1
      [] p = "password_form" -> 2
      [] p = "choose_method" -> 3
      [] p = "app_confirm" -> 4
      [] p = "code_form" -> 5
      [] OTHER -> 0

\* C22: when the page shows one of the five states all through the
\* classification, find_login_state returns that state's code (and so not
\* the code 0, on which login raises 'Failed to find login state'), and
\* login goes on to that state's path.
C22_EachStateRecognized ==
    (/\ steady
     /\ shown \in {"dashboard", "password_form", "choose_method", "app_confirm",
                   "code_form"}
     /\ lpc = "dispatch")
    => /\ login_state = StateCode(shown)
       /\ AfterState(login_state) # "except"


\* find_login_state is running
Classifying ==
    lpc \in {"c_landing", "c_password", "c_choose", "c_app", "c_code",
             "c_challenge"}

\* how many checks find_login_state has left at most
ChecksLeft ==
    (LoginStateTries - iter) * 6
    + (CASE lpc = "c_landing" -> 6
         [] lpc = "c_password" -> 5
         [] lpc = "c_choose" -> 4
         [] lpc = "c_app" -> 3
         [] lpc = "c_code" -> 2
         [] lpc = "c_challenge" -> 1
         [] OTHER -> 0)

\* C23: find_login_state terminates whatever the page does: every check
\* is one bounded wait and leaves fewer checks to make, the page changing
\* adds none, no more than LoginStateTries iterations are made, and the
\* code 0 is returned only when all of them went by.
C23_FindLoginStateTerminates ==
    [][/\ iter' <= LoginStateTries
       /\ Classifying => ChecksLeft >= 1
       /\ (Classifying /\ lpc' # lpc) => ChecksLeft' < ChecksLeft
       /\ (Classifying /\ lpc' = lpc) => ChecksLeft' = ChecksLeft
       /\ (Classifying /\ lpc' = "dispatch" /\ login_state' = 0)
            => iter' = LoginStateTries]_vars

\* the last iteration is running and the page has changed on the way
C23_Witness ==
    /\ Classifying
    /\ iter = LoginStateTries - 1
    /\ ~steady


\* C29: after get_account_ids calls, account_numbers holds the identifier
\* of each brokerage block of the page exactly once, and nothing else.
C29_AccountNumbersOncePerAccount ==
    (acall.op = "get_account_ids" /\ acall.ret = "True")
    => /\ \A i \in BrokerageBlocks :
            CountOf(AccountIdAt(i), acct.account_numbers) = 1
       /\ Len(acct.account_numbers) = Cardinality(BrokerageBlocks)

\* the buckets the table of block i shows
BucketsOf(i) ==
    {acall.page[i].bodies[j][1].bucket :
        j \in {j \in 1..Len(acall.page[i].bodies) :
                  acall.page[i].bodies[j][1].ths >= 1}}

\* C30: when the latest get_holdings returned True, accounts_positions
\* holds the accounts and buckets of the page as it was at that scrape, and
\* nothing that was there at an earlier scrape only.
C30_PositionsAreLatestScrape ==
    (acall.op = "get_holdings" /\ acall.ret = "True")
    => /\ DOMAIN acct.accounts_positions
             = {AccountIdAt(i) : i \in {i \in BrokerageBlocks : BucketsOf(i) # {}}}
       /\ \A i \in BrokerageBlocks :
            AccountIdAt(i) \in DOMAIN acct.accounts_positions
            => DOMAIN acct.accounts_positions[AccountIdAt(i)] = BucketsOf(i)


\* C31: login takes the already-logged-in outcome (code 1, return False
\* with neither credentials nor an OTP card touched) only when the page it
\* classified was the landing page with the Accounts heading; no other page,
\* a security-challenge page in particular, is taken as logged in.
C31_LoggedInOnlyOnDashboard ==
    (lpc \in {"dispatch", "done"} /\ login_state = 1)
    => /\ shown = "dashboard"
       /\ lpc = "done" => login_ret = "False" /\ events = <<>> /\ otp = NoOtp

=============================================================================
